---- MODULE Spec2Model ----
(***************************************************************************)
(* hypetrigger, lib-rust/src/ffmpeg.rs: the ffmpeg child process, its      *)
(* filter graph and command line, and the three threads attached to its    *)
(* stdin, stdout and stderr.                                               *)
(*                                                                         *)
(* Indices follow the source: triggers, frames and stream offsets count    *)
(* from 0; a TLA+ sequence holds element i at position i + 1.              *)
(***************************************************************************)
EXTENDS Integers, Sequences, FiniteSets, TLC

(***************************************************************************)
(* Bounds of the model.                                                    *)
(***************************************************************************)
\* longest trigger list of a configuration
MaxTriggers == 2
\* largest width * height of a trigger's resolved crop, in pixels
MaxArea == 2
\* most bytes ffmpeg writes to stdout in one run
MaxStream == 12
\* most Stop commands the caller sends
MaxStops == 2
\* most lines ffmpeg writes to stderr
MaxLines == 1
\* lines ffmpeg writes to stderr in the runs that follow the stderr thread alone
MaxStderrLines == 3
\* bytes of raw video in the runs that follow all three threads
MaxPumpStream == 3

\* const CHANNELS: u32 = 3
CHANNELS == 3

RunnerTypes == {"tesseract", "tensorflow"}

VARIABLES
    config,          \* Arc<HypetriggerConfig>: inputPath, samplesPerSecond,
                     \* triggers, logging
    child,           \* the ffmpeg process: "none", "running", "exited", "spawn_error"
    args,            \* the argument list the process was started with
    videoBytes,      \* bytes of raw video the input decodes to (ffmpeg writes no more)
    stderrText,      \* the lines ffmpeg has to say on stderr (it writes no more)
    stdoutWritten,   \* bytes ffmpeg has written to its stdout pipe so far
    stdoutRead,      \* bytes the stdout thread has taken from the pipe so far
    pc_stdout,       \* stdout thread: "init", "read", "dispatch", "done", "panicked"
    heap,            \* byte vectors by address (Vec<u8> allocations)
    buffers,         \* buffers[i]: address of the scratch vector of trigger i
    cur_frame,       \* the stdout thread's frame counter
    raw_image_data,  \* address of the frame about to be dispatched (0: none)
    calls,           \* invocations of on_ffmpeg_stdout so far, in order
    stdoutErr,       \* the Err of read_exact that ended the loop ("none": none yet)
    stdoutLog,       \* lines the stdout thread has printed, in order
    runnerOpen,      \* per worker: is the receiving end of its channel alive
    runnerQueue,     \* per worker: RunnerCommands accepted by its channel, in order
    senderAlive,     \* does the caller still hold the Sender<FfmpegStdinCommand>
    stopsSent,       \* send(Stop) calls the caller has made
    rx,              \* FfmpegStdinCommands in the channel, not yet received
    pc_stdin,        \* stdin thread: "recv", "write", "done", "panicked"
    stdinBytes,      \* bytes written to ffmpeg's stdin, in order
    stderrWritten,   \* lines ffmpeg has written to its stderr pipe so far
    stderrPipe,      \* lines ffmpeg wrote to stderr, not yet read
    pc_stderr,       \* stderr thread: "lines", "done"
    sink,            \* arguments on_ffmpeg_stderr was called with, in order
    stderrLog        \* lines the stderr thread itself has printed, in order

inputVars == <<config, videoBytes, stderrText>>

stdoutVars == <<stdoutRead, pc_stdout, heap, buffers, cur_frame,
                raw_image_data, calls, runnerQueue, stdoutErr, stdoutLog>>

stdinVars == <<rx, pc_stdin, stdinBytes>>

stderrVars == <<stderrWritten, stderrPipe, pc_stderr, sink, stderrLog>>

callerVars == <<senderAlive, stopsSent>>

vars == <<inputVars, child, args, stdoutWritten, stdoutVars, runnerOpen,
          callerVars, stdinVars, stderrVars>>

(***************************************************************************)
(* Configuration (crate::config, crate::trigger).                          *)
(***************************************************************************)
\* a crop whose four percentages are given, with resolved pixel width and height
Crop(x, y, w, h, width, height) ==
    [xPercent |-> x, yPercent |-> y, widthPercent |-> w, heightPercent |-> h,
     width |-> width, height |-> height]

\* resolved pixel sizes of a crop: positive, area at most MaxArea
PixelSizes ==
    {wh \in (1..MaxArea) \X (1..MaxArea) : wh[1] * wh[2] <= MaxArea}

\* triggers the pipeline runs with: any pixel size, any worker, a fixed rectangle
PipelineTriggers ==
    {[crop |-> Crop(25, 25, 50, 50, wh[1], wh[2]), runner_type |-> r,
      debug |-> FALSE] :
        wh \in PixelSizes, r \in RunnerTypes}

\* all sequences over S of length 0..n
RECURSIVE SeqsUpTo(_, _)
SeqsUpTo(S, n) ==
    IF n = 0 THEN {<<>>}
    ELSE LET shorter == SeqsUpTo(S, n - 1)
         IN shorter \cup {Append(s, e) : s \in {t \in shorter : Len(t) = n - 1}, e \in S}

\* the flags of LoggingConfig that this file reads
Logging(thread_exit, buffer_allocation) ==
    [debug_thread_exit |-> thread_exit, debug_buffer_allocation |-> buffer_allocation]

Config(triggers) ==
    [inputPath |-> "input.mp4", samplesPerSecond |-> 2, triggers |-> triggers,
     logging |-> Logging(FALSE, FALSE)]

\* let num_triggers = config.triggers.len()
num_triggers == Len(config.triggers)

\* config.triggers[i], i from 0
Trigger(i) == config.triggers[i + 1]

(***************************************************************************)
(* spawn_ffmpeg_childprocess: the filter graph and the command line.       *)
(* A formatted string is the sequence of its formatted pieces, each piece  *)
(* a record of the values the format arguments print.                      *)
(***************************************************************************)
\* percent / 100.0, an f64 quotient kept as the fraction it prints
Div100(percent) == [num |-> percent, den |-> 100]

\* format!("[0:v]fps={},split={}", samples_per_second, num_triggers)
FpsSplit(samples_per_second, n) ==
    [tag |-> "fps_split", fps |-> samples_per_second, split |-> n]

\* format!("[in{}]", i)
InLabel(i) == [tag |-> "in", idx |-> i]

\* filter_complex.push(';')
Semicolon == [tag |-> ";"]

\* format!("[in{}]crop=round(in_w*{}):round(in_h*{}):round(in_w*{}):round(in_h*{})[out{}]", ..)
CropStage(i, trigger) ==
    [tag  |-> "crop",
     in   |-> i,
     in_w |-> Div100(trigger.crop.widthPercent),
     in_h |-> Div100(trigger.crop.heightPercent),
     x    |-> Div100(trigger.crop.xPercent),
     y    |-> Div100(trigger.crop.yPercent),
     out  |-> i]

\* for i in 0..num_triggers { filter_complex.push_str("[in{i}]") }, from i on
RECURSIVE InLabels(_, _)
InLabels(i, n) ==
    IF i >= n THEN <<>> ELSE <<InLabel(i)>> \o InLabels(i + 1, n)

\* the crop loop, from i on: one stage per trigger, ';' after all but the last
RECURSIVE CropStages(_, _)
CropStages(i, triggers) ==
    IF i >= Len(triggers) THEN <<>>
    ELSE <<CropStage(i, triggers[i + 1])>>
         \o (IF i < Len(triggers) - 1 THEN <<Semicolon>> ELSE <<>>)
         \o CropStages(i + 1, triggers)

\* the string filter_complex
FilterComplex(cfg) ==
    <<FpsSplit(cfg.samplesPerSecond, Len(cfg.triggers))>>
    \o InLabels(0, Len(cfg.triggers))
    \o <<Semicolon>>
    \o CropStages(0, cfg.triggers)

\* a literal argument
Arg(text) == [tag |-> "arg", text |-> text]

\* OutLabel numbered from 1, as the doc comment's [out1][out2] is
OutLabelFromOne(i) == [tag |-> "out", idx |-> i + 1]

\* format!("[out{}]", i)
OutLabel(i) == [tag |-> "out", idx |-> i]

\* for i in 0..num_triggers { cmd.arg("-map").arg("[out{i}]") }, from i on
RECURSIVE MapArgs(_, _)
MapArgs(i, n) ==
    IF i >= n THEN <<>> ELSE <<Arg("-map"), OutLabel(i)>> \o MapArgs(i + 1, n)

\* the arguments of cmd, in the order they are added
CommandArgs(cfg) ==
    <<Arg("-hwaccel"), Arg("auto"), Arg("-i"), Arg(cfg.inputPath),
      Arg("-filter_complex"), [tag |-> "filter_complex", graph |-> FilterComplex(cfg)]>>
    \o MapArgs(0, Len(cfg.triggers))
    \o <<Arg("-vsync"), Arg("drop"), Arg("-f"), Arg("rawvideo"),
         Arg("-pix_fmt"), Arg("rgb24"), Arg("-an"), Arg("-y"), Arg("pipe:1")>>

\* cmd.spawn() returned Ok(child)
SpawnOk ==
    /\ child = "none"
    /\ args' = CommandArgs(config)
    /\ child' = "running"
    /\ UNCHANGED <<inputVars, stdoutWritten, stdoutVars, runnerOpen>>
    /\ UNCHANGED <<callerVars, stdinVars, stderrVars>>

\* cmd.spawn() returned Err: the executable is missing or cannot be started
SpawnErr ==
    /\ child = "none"
    /\ args' = CommandArgs(config)
    /\ child' = "spawn_error"
    /\ UNCHANGED <<inputVars, stdoutWritten, stdoutVars, runnerOpen>>
    /\ UNCHANGED <<callerVars, stdinVars, stderrVars>>

\* spawn_ffmpeg_childprocess(config, stdio_config)
SpawnFfmpegChildprocess == SpawnOk \/ SpawnErr

(***************************************************************************)
(* The ffmpeg process, seen from its pipes.                                *)
(***************************************************************************)
\* the byte at offset p of the raw video: a marker of its position
Marker(p) == (p % 255) + 1

\* the n bytes of the raw video from offset p on
StreamBytes(p, n) == [k \in 1..n |-> Marker(p + k - 1)]

\* ffmpeg writes the next byte of raw video to stdout
FfmpegWriteStdout ==
    /\ child = "running"
    /\ stdoutWritten < videoBytes
    /\ stdoutWritten' = stdoutWritten + 1
    /\ UNCHANGED <<inputVars, child, args, stdoutVars, runnerOpen>>
    /\ UNCHANGED <<callerVars, stdinVars, stderrVars>>

\* n lines of stderr output: line k reads k, as text or as bytes that are not UTF-8
StderrTexts(n) ==
    {[k \in 1..n |-> [text |-> k, utf8 |-> u[k]]] : u \in [1..n -> BOOLEAN]}

\* the stderr output of the runs that follow all three threads: MaxLines
\* lines, every second one not UTF-8
PumpStderrText == [k \in 1..MaxLines |-> [text |-> k, utf8 |-> k % 2 = 1]]

\* ffmpeg writes its next line to stderr
FfmpegWriteStderr ==
    /\ child = "running"
    /\ stderrWritten < Len(stderrText)
    /\ stderrWritten' = stderrWritten + 1
    /\ stderrPipe' = Append(stderrPipe, stderrText[stderrWritten + 1])
    /\ UNCHANGED <<inputVars, child, args, stdoutWritten, stdoutVars, runnerOpen>>
    /\ UNCHANGED <<callerVars, stdinVars, pc_stderr, sink, stderrLog>>

\* ffmpeg exits (end of input, 'q' on stdin, a crash, a kill): its three pipes close
FfmpegExit ==
    /\ child = "running"
    /\ child' = "exited"
    /\ UNCHANGED <<inputVars, args, stdoutWritten, stdoutVars, runnerOpen>>
    /\ UNCHANGED <<callerVars, stdinVars, stderrVars>>

\* a u32 as its four bytes, lowest first, so that no product of the
\* arithmetic below leaves the range of the model checker's integers
U32(n) == [k \in 1..4 |-> (n \div (256 ^ (k - 1))) % 256]

\* the product of byte i of a and the byte of b that meets it in column k
\* (columns from 0) of the long multiplication
Term(a, b, i, k) ==
    IF (k + 2 - i) \in 1..4 THEN a[i] * b[k + 2 - i] ELSE 0

Column(a, b, k) == Term(a, b, 1, k) + Term(a, b, 2, k) + Term(a, b, 3, k) + Term(a, b, 4, k)

\* what the columns below k carry into column k
RECURSIVE Carry(_, _, _)
Carry(a, b, k) ==
    IF k = 0 THEN 0 ELSE (Column(a, b, k - 1) + Carry(a, b, k - 1)) \div 256

\* byte k of the full 64-bit product
Digit(a, b, k) == (Column(a, b, k) + Carry(a, b, k)) % 256

\* u32 * u32 as a build without overflow checks computes it: the low 32 bits
WrappingMul(a, b) == [k \in 1..4 |-> Digit(a, b, k - 1)]

\* u32 * u32 overflows: the high 32 bits of the product are not zero
MulOverflows(a, b) == \E k \in 4..7 : Digit(a, b, k) # 0

\* (.. as usize) of a u32 given by its bytes
ToUsize(l) == l[1] + 256 * l[2] + 65536 * l[3] + 16777216 * l[4]

(***************************************************************************)
(* spawn_ffmpeg_stdout_thread and on_ffmpeg_stdout.                        *)
(***************************************************************************)
\* let buf_size = (width * height * CHANNELS) as usize: a u32 product
BufSize(width, height) ==
    ToUsize(WrappingMul(WrappingMul(U32(width), U32(height)), U32(CHANNELS)))

\* does one of the two multiplications leave the range of u32
BufSizeOverflows(width, height) ==
    \/ MulOverflows(U32(width), U32(height))
    \/ MulOverflows(WrappingMul(U32(width), U32(height)), U32(CHANNELS))

\* vec![0_u8; buf_size]
Zeros(n) == [k \in 1..n |-> 0]

\* FrameIndex counting triggers from 1, as the doc comment's [in1][in2] does
FrameIndexFromOne(f, n) == (f + 1) % n

\* FrameIndex that gives every second round to the first trigger alone
FrameIndexSkewed(f, n) == IF (f \div n) % 2 = 0 THEN f % n ELSE 0

\* cur_frame % num_triggers
FrameIndex(f, n) == f % n

\* ReadExact as stdout.read(buf) would do: at the end of the stream a short
\* read of the bytes that are left returns Ok
ReadSome(len, avail, eof) ==
    IF avail >= len THEN [result |-> "ok", filled |-> len]
    ELSE IF eof /\ avail > 0 THEN [result |-> "ok", filled |-> avail]
    ELSE IF eof THEN [result |-> "err", filled |-> 0]
    ELSE [result |-> "wait", filled |-> 0]

\* ReadExact that never sees the end of the stream: it waits for more bytes
ReadExactNoEof(len, avail, eof) ==
    IF avail >= len THEN [result |-> "ok", filled |-> len]
    ELSE [result |-> "wait", filled |-> 0]

\* ReadExact on a thread that also drains stderr and does that first
ReadExactBehindStderr(len, avail, eof) ==
    IF stderrPipe # <<>> THEN [result |-> "wait", filled |-> 0]
    ELSE IF avail >= len THEN [result |-> "ok", filled |-> len]
    ELSE IF eof THEN [result |-> "err", filled |-> avail]
    ELSE [result |-> "wait", filled |-> 0]

\* stdout.read_exact(buf) with avail bytes in the pipe: how many bytes it puts
\* in buf and whether it returns Ok, returns Err or keeps waiting
ReadExact(len, avail, eof) ==
    IF avail >= len THEN [result |-> "ok", filled |-> len]
    ELSE IF eof THEN [result |-> "err", filled |-> avail]
    ELSE [result |-> "wait", filled |-> 0]

\* buf after the first Len(bytes) of its bytes were overwritten
Fill(buf, bytes) ==
    [k \in 1..Len(buf) |-> IF k <= Len(bytes) THEN bytes[k] ELSE buf[k]]

\* Clone without the copy: the frame is the scratch vector itself
ShareBuffer(h, addr) == [heap |-> h, addr |-> addr]

\* Arc::new(buffers[..].clone()): a new vector holding a copy
Clone(h, addr) == [heap |-> Append(h, h[addr]), addr |-> Len(h) + 1]

\* if logging.debug_thread_exit { println!(line) }
DebugThreadExit(log, line) ==
    IF config.logging.debug_thread_exit THEN Append(log, [text |-> line]) ELSE log

\* println!("[rust] Allocated buffer of size {} for trigger id {}", ..) for the
\* triggers in debug mode, if logging.debug_buffer_allocation
AllocationLines ==
    LET line(i) == [text    |-> "[rust] Allocated buffer",
                    size    |-> BufSize(Trigger(i - 1).crop.width,
                                        Trigger(i - 1).crop.height),
                    trigger |-> i - 1]
        printed(i) == Trigger(i - 1).debug /\ config.logging.debug_buffer_allocation
    IN SelectSeq([i \in 1..num_triggers |-> line(i)],
                 LAMBDA l : printed(l.trigger + 1))

\* the "Init buffers" loop: one zeroed vector per trigger, in trigger order
\* (a size that does not fit u32 wraps, as in a build without overflow checks)
AllocBuffers ==
    /\ pc_stdout = "init"
    /\ child \in {"running", "exited"}
    /\ heap' = [i \in 1..num_triggers |->
                  Zeros(BufSize(Trigger(i - 1).crop.width, Trigger(i - 1).crop.height))]
    /\ buffers' = [i \in 1..num_triggers |-> i]
    /\ stdoutLog' = stdoutLog \o AllocationLines
    /\ pc_stdout' = "read"
    /\ UNCHANGED <<inputVars, child, args, stdoutWritten, runnerOpen>>
    /\ UNCHANGED <<stdoutRead, cur_frame, raw_image_data, calls, runnerQueue, stdoutErr>>
    /\ UNCHANGED <<callerVars, stdinVars, stderrVars>>

\* the "Init buffers" loop in a build with overflow checks: the multiplication
\* panics at the first trigger whose size does not fit u32
AllocOverflowPanic ==
    /\ pc_stdout = "init"
    /\ child \in {"running", "exited"}
    /\ \E i \in 0..(num_triggers - 1) :
          /\ BufSizeOverflows(Trigger(i).crop.width, Trigger(i).crop.height)
          /\ \A j \in 0..(i - 1) :
                ~BufSizeOverflows(Trigger(j).crop.width, Trigger(j).crop.height)
          /\ stdoutLog' = stdoutLog \o SelectSeq(AllocationLines, LAMBDA l : l.trigger < i)
    /\ pc_stdout' = "panicked"
    /\ UNCHANGED <<inputVars, child, args, stdoutWritten, runnerOpen>>
    /\ UNCHANGED <<stdoutRead, heap, buffers, cur_frame, raw_image_data, calls, runnerQueue>>
    /\ UNCHANGED stdoutErr
    /\ UNCHANGED <<callerVars, stdinVars, stderrVars>>

\* the loop condition with no trigger: cur_frame % 0 panics
StdoutRemainderPanic ==
    /\ pc_stdout = "read"
    /\ num_triggers = 0
    /\ pc_stdout' = "panicked"
    /\ UNCHANGED <<inputVars, child, args, stdoutWritten, runnerOpen>>
    /\ UNCHANGED <<stdoutRead, heap, buffers, cur_frame, raw_image_data, calls, runnerQueue>>
    /\ UNCHANGED <<stdoutErr, stdoutLog>>
    /\ UNCHANGED <<callerVars, stdinVars, stderrVars>>

\* StdoutReadExact with read_exact(..).unwrap() in the loop: Err panics
StdoutReadExactUnwrap ==
    /\ pc_stdout = "read"
    /\ num_triggers > 0
    /\ LET addr  == buffers[FrameIndex(cur_frame, num_triggers) + 1]
           r     == ReadExact(Len(heap[addr]), stdoutWritten - stdoutRead,
                              child = "exited")
           read  == [heap EXCEPT ![addr] = Fill(@, StreamBytes(stdoutRead, r.filled))]
           clone == Clone(read, addr)
       IN /\ r.result # "wait"
          /\ stdoutRead' = stdoutRead + r.filled
          /\ IF r.result = "ok"
             THEN /\ heap' = clone.heap
                  /\ raw_image_data' = clone.addr
                  /\ pc_stdout' = "dispatch"
             ELSE /\ heap' = read
                  /\ raw_image_data' = raw_image_data
                  /\ pc_stdout' = "panicked"
    /\ UNCHANGED <<inputVars, child, args, stdoutWritten, runnerOpen>>
    /\ UNCHANGED <<buffers, cur_frame, calls, runnerQueue, stdoutErr, stdoutLog>>
    /\ UNCHANGED <<callerVars, stdinVars, stderrVars>>

\* the loop condition: read_exact into buffers[cur_frame % num_triggers];
\* on Ok the loop body clones the buffer into a new Arc
StdoutReadExact ==
    /\ pc_stdout = "read"
    /\ num_triggers > 0
    /\ LET addr  == buffers[FrameIndex(cur_frame, num_triggers) + 1]
           r     == ReadExact(Len(heap[addr]), stdoutWritten - stdoutRead,
                              child = "exited")
           read  == [heap EXCEPT ![addr] = Fill(@, StreamBytes(stdoutRead, r.filled))]
           clone == Clone(read, addr)
       IN /\ r.result # "wait"
          /\ stdoutRead' = stdoutRead + r.filled
          /\ IF r.result = "ok"
             THEN /\ heap' = clone.heap
                  /\ raw_image_data' = clone.addr
                  /\ pc_stdout' = "dispatch"
                  /\ UNCHANGED <<stdoutErr, stdoutLog>>
             ELSE /\ heap' = read
                  /\ raw_image_data' = raw_image_data
                  /\ pc_stdout' = "done"
                  /\ stdoutErr' = "UnexpectedEof"
                  /\ stdoutLog' = DebugThreadExit(stdoutLog, "[ffmpeg] done; thread exiting")
    /\ UNCHANGED <<inputVars, child, args, stdoutWritten, runnerOpen>>
    /\ UNCHANGED <<buffers, cur_frame, calls, runnerQueue>>
    /\ UNCHANGED <<callerVars, stdinVars, stderrVars>>

\* the loop condition when the read fails with an I/O error that is not the
\* end of the stream: read_exact returns Err after an unspecified number of
\* bytes, is_ok() is false and the loop ends as it does at the end of the stream
StdoutReadIoError ==
    /\ pc_stdout = "read"
    /\ num_triggers > 0
    /\ LET addr  == buffers[FrameIndex(cur_frame, num_triggers) + 1]
           avail == stdoutWritten - stdoutRead
       IN \E k \in 0..(Len(heap[addr]) - 1) :
             /\ k <= avail
             /\ stdoutRead' = stdoutRead + k
             /\ heap' = [heap EXCEPT ![addr] = Fill(@, StreamBytes(stdoutRead, k))]
    /\ pc_stdout' = "done"
    /\ stdoutErr' = "Other"
    /\ stdoutLog' = DebugThreadExit(stdoutLog, "[ffmpeg] done; thread exiting")
    /\ UNCHANGED <<inputVars, child, args, stdoutWritten, runnerOpen>>
    /\ UNCHANGED <<buffers, cur_frame, raw_image_data, calls, runnerQueue>>
    /\ UNCHANGED <<callerVars, stdinVars, stderrVars>>

\* Payload with the first trigger of the configuration in place of the frame's
PayloadFirstTrigger(i, image) ==
    [input_id |-> config.inputPath, image |-> image, trigger |-> 0]

\* ProcessImagePayload { input_id, image, trigger }
Payload(i, image) == [input_id |-> config.inputPath, image |-> image, trigger |-> i]

\* OnFfmpegStdout with a failed send dropped instead of unwrapped: the loop goes on
OnFfmpegStdoutDropFrame ==
    /\ pc_stdout = "dispatch"
    /\ LET i       == FrameIndex(cur_frame, num_triggers)
           tx_name == Trigger(i).runner_type
       IN /\ calls' = Append(calls, Payload(i, raw_image_data))
          /\ runnerQueue' = IF runnerOpen[tx_name]
                            THEN [runnerQueue EXCEPT ![tx_name] =
                                     Append(@, Payload(i, raw_image_data))]
                            ELSE runnerQueue
    /\ cur_frame' = cur_frame + 1
    /\ pc_stdout' = "read"
    /\ raw_image_data' = 0
    /\ UNCHANGED <<inputVars, child, args, stdoutWritten, runnerOpen>>
    /\ UNCHANGED <<stdoutRead, heap, buffers, stdoutErr, stdoutLog>>
    /\ UNCHANGED <<callerVars, stdinVars, stderrVars>>

\* OnFfmpegStdout with the command put at the head of the worker's queue
OnFfmpegStdoutLifo ==
    /\ pc_stdout = "dispatch"
    /\ LET i       == FrameIndex(cur_frame, num_triggers)
           tx_name == Trigger(i).runner_type
       IN /\ calls' = Append(calls, Payload(i, raw_image_data))
          /\ IF runnerOpen[tx_name]
             THEN /\ runnerQueue' = [runnerQueue EXCEPT ![tx_name] =
                                        <<Payload(i, raw_image_data)>> \o @]
                  /\ cur_frame' = cur_frame + 1
                  /\ pc_stdout' = "read"
             ELSE /\ runnerQueue' = runnerQueue
                  /\ cur_frame' = cur_frame
                  /\ pc_stdout' = "panicked"
    /\ raw_image_data' = 0
    /\ UNCHANGED <<inputVars, child, args, stdoutWritten, runnerOpen>>
    /\ UNCHANGED <<stdoutRead, heap, buffers, stdoutErr, stdoutLog>>
    /\ UNCHANGED <<callerVars, stdinVars, stderrVars>>

\* on_ffmpeg_stdout for the frame just read; tx.send(..).expect(..) returns and
\* the loop goes on (cur_frame += 1), or the receiver is gone and it panics
OnFfmpegStdout ==
    /\ pc_stdout = "dispatch"
    /\ LET i       == FrameIndex(cur_frame, num_triggers)
           tx_name == Trigger(i).runner_type
       IN /\ calls' = Append(calls, Payload(i, raw_image_data))
          /\ IF runnerOpen[tx_name]
             THEN /\ runnerQueue' = [runnerQueue EXCEPT ![tx_name] =
                                        Append(@, Payload(i, raw_image_data))]
                  /\ cur_frame' = cur_frame + 1
                  /\ pc_stdout' = "read"
             ELSE /\ runnerQueue' = runnerQueue
                  /\ cur_frame' = cur_frame
                  /\ pc_stdout' = "panicked"
    /\ raw_image_data' = 0
    /\ UNCHANGED <<inputVars, child, args, stdoutWritten, runnerOpen>>
    /\ UNCHANGED <<stdoutRead, heap, buffers, stdoutErr, stdoutLog>>
    /\ UNCHANGED <<callerVars, stdinVars, stderrVars>>

\* the worker thread of some trigger ends and drops the receiving end of its channel
WorkerClose ==
    /\ \E r \in {config.triggers[i].runner_type : i \in 1..num_triggers} :
          /\ runnerOpen[r]
          /\ runnerOpen' = [runnerOpen EXCEPT ![r] = FALSE]
    /\ UNCHANGED <<inputVars, child, args, stdoutWritten, stdoutVars>>
    /\ UNCHANGED <<callerVars, stdinVars, stderrVars>>

(***************************************************************************)
(* Specification of the stdout thread: ffmpeg runs, writes the raw video   *)
(* and exits; the stdout thread reads and dispatches; workers may end.     *)
(***************************************************************************)
InitThreads ==
    /\ stdoutWritten = 0
    /\ stdoutRead = 0
    /\ pc_stdout = "init"
    /\ heap = <<>>
    /\ buffers = <<>>
    /\ cur_frame = 0
    /\ raw_image_data = 0
    /\ calls = <<>>
    /\ stdoutErr = "none"
    /\ stdoutLog = <<>>
    /\ stderrLog = <<>>
    /\ runnerOpen = [r \in RunnerTypes |-> TRUE]
    /\ runnerQueue = [r \in RunnerTypes |-> <<>>]
    /\ senderAlive = TRUE
    /\ stopsSent = 0
    /\ rx = <<>>
    /\ pc_stdin = "recv"
    /\ stdinBytes = <<>>
    /\ stderrWritten = 0
    /\ stderrPipe = <<>>
    /\ pc_stderr = "lines"
    /\ sink = <<>>

Init ==
    /\ config \in {Config(t) : t \in SeqsUpTo(PipelineTriggers, MaxTriggers)}
    /\ videoBytes = MaxStream
    /\ stderrText = <<>>
    /\ child = "running"
    /\ args = CommandArgs(config)
    /\ InitThreads

Next ==
    \/ FfmpegWriteStdout
    \/ FfmpegExit
    \/ AllocBuffers
    \/ StdoutRemainderPanic
    \/ StdoutReadExact
    \/ OnFfmpegStdout
    \/ WorkerClose

Spec == Init /\ [][Next]_vars

(***************************************************************************)
(* spawn_ffmpeg_stdin_thread and the caller's end of its channel.          *)
(***************************************************************************)
\* the caller sends FfmpegStdinCommand::Stop; the send fails once the stdin
\* thread has ended, since the Receiver is gone with it
CallerSendStop ==
    /\ senderAlive
    /\ stopsSent < MaxStops
    /\ stopsSent' = stopsSent + 1
    /\ rx' = IF pc_stdin \in {"recv", "write"} THEN Append(rx, "Stop") ELSE rx
    /\ UNCHANGED <<inputVars, child, args, stdoutWritten, stdoutVars, runnerOpen>>
    /\ UNCHANGED <<senderAlive, pc_stdin, stdinBytes, stderrVars>>

\* the caller drops its Sender: the channel is closed
CallerDropSender ==
    /\ senderAlive
    /\ senderAlive' = FALSE
    /\ UNCHANGED <<inputVars, child, args, stdoutWritten, stdoutVars, runnerOpen>>
    /\ UNCHANGED <<stopsSent, stdinVars, stderrVars>>

\* while let Ok(command) = rx.recv(): a command arrives
StdinRecv ==
    /\ pc_stdin = "recv"
    /\ rx # <<>>
    /\ rx' = Tail(rx)
    /\ pc_stdin' = "write"
    /\ UNCHANGED <<inputVars, child, args, stdoutWritten, stdoutVars, runnerOpen>>
    /\ UNCHANGED <<callerVars, stdinBytes, stderrVars>>

\* StdinDisconnected as rx.try_recv() would do: an empty channel ends the loop
StdinDisconnectedTryRecv ==
    /\ pc_stdin = "recv"
    /\ rx = <<>>
    /\ pc_stdin' = "done"
    /\ UNCHANGED <<inputVars, child, args, stdoutWritten, stdoutVars, runnerOpen>>
    /\ UNCHANGED <<callerVars, rx, stdinBytes, stderrVars>>

\* rx.recv() returns Err: the channel is empty and every sender is gone
StdinDisconnected ==
    /\ pc_stdin = "recv"
    /\ rx = <<>>
    /\ ~senderAlive
    /\ pc_stdin' = "done"
    /\ UNCHANGED <<inputVars, child, args, stdoutWritten, stdoutVars, runnerOpen>>
    /\ UNCHANGED <<callerVars, rx, stdinBytes, stderrVars>>

\* StopBytes as the commented-out loop wrote them: b"q\n"
StopBytesNewline == <<"q", "\n">>

\* the bytes of b"q"
StopBytes == <<"q">>

\* StdinWrite in a build where a panic aborts the process: every thread ends
StdinWriteAbort ==
    /\ pc_stdin = "write"
    /\ IF child = "running"
       THEN /\ stdinBytes' = stdinBytes \o StopBytes
            /\ pc_stdin' = "recv"
            /\ UNCHANGED <<pc_stdout, pc_stderr>>
       ELSE /\ stdinBytes' = stdinBytes
            /\ pc_stdin' = "panicked"
            /\ pc_stdout' = "panicked"
            /\ pc_stderr' = "done"
    /\ UNCHANGED <<inputVars, child, args, stdoutWritten, runnerOpen>>
    /\ UNCHANGED <<stdoutRead, heap, buffers, cur_frame, raw_image_data, calls, runnerQueue>>
    /\ UNCHANGED <<stdoutErr, stdoutLog>>
    /\ UNCHANGED <<callerVars, rx, stderrWritten, stderrPipe, sink, stderrLog>>

\* FfmpegStdinCommand::Stop => stdin.write_all(b"q").expect(..): the byte is
\* written, or the pipe is broken (ffmpeg has exited) and the thread panics
StdinWrite ==
    /\ pc_stdin = "write"
    /\ IF child = "running"
       THEN /\ stdinBytes' = stdinBytes \o StopBytes
            /\ pc_stdin' = "recv"
       ELSE /\ stdinBytes' = stdinBytes
            /\ pc_stdin' = "panicked"
    /\ UNCHANGED <<inputVars, child, args, stdoutWritten, stdoutVars, runnerOpen>>
    /\ UNCHANGED <<callerVars, rx, stderrVars>>

(***************************************************************************)
(* spawn_ffmpeg_stderr_thread.                                             *)
(***************************************************************************)
\* what BufReader::lines() yields for a line: Ok(String), or Err for bytes
\* that are not UTF-8
LineItem(line) ==
    IF line.utf8 THEN [tag |-> "Ok", string |-> line.text]
    ELSE [tag |-> "Err", string |-> ""]

\* StderrLine as .lines().flatten().for_each(..) would do: a line that cannot be
\* decoded is dropped
StderrLineFlatten ==
    /\ pc_stderr = "lines"
    /\ stderrPipe # <<>>
    /\ sink' = IF Head(stderrPipe).utf8
               THEN Append(sink, LineItem(Head(stderrPipe)))
               ELSE sink
    /\ stderrPipe' = Tail(stderrPipe)
    /\ UNCHANGED <<inputVars, child, args, stdoutWritten, stdoutVars, runnerOpen>>
    /\ UNCHANGED <<callerVars, stdinVars, stderrWritten, pc_stderr, stderrLog>>

\* .for_each(|line| (on_ffmpeg_stderr)(line)): the next line goes to the callback
StderrLine ==
    /\ pc_stderr = "lines"
    /\ stderrPipe # <<>>
    /\ sink' = Append(sink, LineItem(Head(stderrPipe)))
    /\ stderrPipe' = Tail(stderrPipe)
    /\ UNCHANGED <<inputVars, child, args, stdoutWritten, stdoutVars, runnerOpen>>
    /\ UNCHANGED <<callerVars, stdinVars, stderrWritten, pc_stderr, stderrLog>>

\* lines() is exhausted: the pipe is empty and closed, the thread exits
StderrEof ==
    /\ pc_stderr = "lines"
    /\ stderrPipe = <<>>
    /\ child = "exited"
    /\ pc_stderr' = "done"
    /\ stderrLog' = DebugThreadExit(stderrLog, "[ffmpeg.stderr] done; thread exiting")
    /\ UNCHANGED <<inputVars, child, args, stdoutWritten, stdoutVars, runnerOpen>>
    /\ UNCHANGED <<callerVars, stdinVars, stderrWritten, stderrPipe, sink>>

(***************************************************************************)
(* Specification of the three threads together, on a short stream.         *)
(***************************************************************************)
\* triggers of the runs that follow all three threads: one pixel, one worker
PumpTriggers ==
    {[crop |-> Crop(25, 25, 50, 50, 1, 1), runner_type |-> "tesseract",
      debug |-> FALSE]}

\* no trigger or one: the three threads do not depend on their number
InitPumps ==
    /\ config \in {Config(t) : t \in SeqsUpTo(PumpTriggers, 1)}
    /\ videoBytes = MaxPumpStream
    /\ stderrText = PumpStderrText
    /\ child = "running"
    /\ args = CommandArgs(config)
    /\ InitThreads

\* the steps of each thread
StdoutThread ==
    AllocBuffers \/ StdoutRemainderPanic \/ StdoutReadExact \/ OnFfmpegStdout

StdinThread == StdinRecv \/ StdinDisconnected \/ StdinWrite

StderrThread == StderrLine \/ StderrEof

NextPumps ==
    \/ FfmpegWriteStdout
    \/ FfmpegWriteStderr
    \/ FfmpegExit
    \/ WorkerClose
    \/ CallerSendStop
    \/ CallerDropSender
    \/ StdoutThread
    \/ StdinThread
    \/ StderrThread

SpecPumps == InitPumps /\ [][NextPumps]_vars

\* the operating system schedules every thread that can run
SpecFair ==
    /\ InitPumps
    /\ [][NextPumps]_vars
    /\ WF_vars(StdoutThread)
    /\ WF_vars(StdinThread)
    /\ WF_vars(StderrThread)

(***************************************************************************)
(* What the raw video holds, frame by frame.                               *)
(***************************************************************************)
\* size[i]: the length of trigger i's scratch buffer
SizeOf(i) == Len(heap[buffers[i + 1]])

\* offset of frame f in the stream: the sum of size[j mod N] for j < f
RECURSIVE Offset(_)
Offset(f) ==
    IF f = 0 THEN 0 ELSE Offset(f - 1) + SizeOf((f - 1) % num_triggers)

\* the bytes of one round: one chunk per trigger
RoundSize == Offset(num_triggers)

\* the bytes of frame f in the stream
FrameBytes(f) == StreamBytes(Offset(f), SizeOf(f % num_triggers))

\* the f-th call of on_ffmpeg_stdout (f from 0) is for trigger f mod N and
\* carries the bytes of frame f
CallIsFrame(f) ==
    /\ calls[f + 1].trigger = f % num_triggers
    /\ heap[calls[f + 1].image] = FrameBytes(f)

\* C1 (round-robin demultiplexing): with N >= 1 triggers, when the stdout
\* thread has read a stream of exactly K rounds to its end, on_ffmpeg_stdout
\* was called K times per trigger, the f-th call for trigger f mod N with the
\* bytes of the stream at the offset of frame f.
DemuxRoundRobin ==
    (/\ pc_stdout = "done"
     /\ num_triggers >= 1
     /\ stdoutWritten % RoundSize = 0)
    => LET K == stdoutWritten \div RoundSize
       IN /\ Len(calls) = K * num_triggers
          /\ \A i \in 0..(num_triggers - 1) :
                Cardinality({f \in 1..Len(calls) : calls[f].trigger = i}) = K
          /\ \A f \in 0..(Len(calls) - 1) : CallIsFrame(f)

\* two triggers with buffers of different sizes, two full rounds, all dispatched
DemuxRoundRobinWitness ==
    /\ pc_stdout = "done"
    /\ num_triggers = 2
    /\ stdoutWritten = 2 * RoundSize
    /\ Len(calls) = 4
    /\ calls[4].trigger = 1

\* one round of two triggers whose buffers differ in size
DemuxUnequalSizesWitness ==
    /\ pc_stdout = "done"
    /\ num_triggers = 2
    /\ SizeOf(0) # SizeOf(1)
    /\ stdoutWritten = RoundSize
    /\ Len(calls) = 2

\* C2 (zero-trigger safety), as claimed: with an empty trigger list the
\* stdout thread reads nothing, dispatches nothing and does not panic.
ZeroTriggerSafety ==
    num_triggers = 0
    => /\ pc_stdout # "panicked"
       /\ stdoutRead = 0
       /\ calls = <<>>

\* the stream has ended with fewer bytes left than frame cur_frame needs
StreamTruncated ==
    /\ child = "exited"
    /\ pc_stdout = "read"
    /\ num_triggers >= 1
    /\ stdoutWritten - stdoutRead < SizeOf(cur_frame % num_triggers)

\* C3 (truncated stream): every dispatched frame is a complete frame of the
\* stream; when the stream has ended with fewer bytes left than the frame
\* being read needs, the next step of the stdout thread ends it with nothing
\* dispatched; and once it has ended that way, the frames dispatched are
\* exactly the complete frames 0..f-1, f the frame the stream ran out in.
TruncatedStream ==
    /\ [](\A f \in 0..(Len(calls) - 1) : CallIsFrame(f))
    /\ [](pc_stdout = "done" =>
            /\ Len(calls) = cur_frame
            /\ Offset(cur_frame) <= stdoutWritten
            /\ stdoutWritten < Offset(cur_frame + 1))
    /\ [][StreamTruncated /\ stdoutVars' # stdoutVars =>
            pc_stdout' = "done" /\ calls' = calls /\ runnerQueue' = runnerQueue]_vars

\* the stream ended in the middle of the second frame or later
TruncatedStreamWitness ==
    /\ pc_stdout = "done"
    /\ cur_frame >= 1
    /\ stdoutWritten > Offset(cur_frame)
    /\ Len(calls) = cur_frame

\* C6 (buffer isolation): the frames dispatched never share storage with one
\* another or with a scratch buffer, and no step changes the bytes of a frame
\* that was dispatched.
BufferIsolation ==
    /\ [](\A f \in 1..Len(calls) :
            /\ \A g \in 1..Len(calls) : f # g => calls[f].image # calls[g].image
            /\ \A i \in 1..Len(buffers) : calls[f].image # buffers[i])
    /\ [][\A f \in 1..Len(calls) : heap'[calls[f].image] = heap[calls[f].image]]_vars

\* two frames of one trigger were dispatched, and its scratch buffer holds
\* the bytes of the later one
BufferIsolationWitness ==
    \E f, g \in 1..Len(calls) :
        /\ f < g
        /\ calls[f].trigger = calls[g].trigger
        /\ heap[calls[f].image] # heap[calls[g].image]
        /\ heap[buffers[calls[g].trigger + 1]] = heap[calls[g].image]

\* the frame about to be dispatched goes to a worker whose receiver is gone
SendFails ==
    /\ pc_stdout = "dispatch"
    /\ ~runnerOpen[Trigger(FrameIndex(cur_frame, num_triggers)).runner_type]

\* C7 (dispatch failure stops frame production): a dispatch whose enqueue
\* fails ends the stdout thread, and from then on it calls on_ffmpeg_stdout no
\* more, reads no more of the stream and leaves every worker queue as it was.
DispatchFailureStops ==
    /\ [][SendFails /\ stdoutVars' # stdoutVars =>
            /\ pc_stdout' = "panicked"
            /\ runnerQueue' = runnerQueue
            /\ stdoutRead' = stdoutRead]_vars
    /\ [][pc_stdout = "panicked" =>
            /\ pc_stdout' = "panicked"
            /\ calls' = calls
            /\ runnerQueue' = runnerQueue
            /\ stdoutRead' = stdoutRead]_vars

\* a dispatch failed after an earlier frame was enqueued, with another full
\* frame waiting in the pipe
DispatchFailureWitness ==
    /\ pc_stdout = "panicked"
    /\ num_triggers >= 1
    /\ Len(calls) >= 2
    /\ \E r \in RunnerTypes : runnerQueue[r] # <<>>
    /\ stdoutWritten - stdoutRead >= SizeOf(Len(calls) % num_triggers)

(***************************************************************************)
(* The three threads after ffmpeg has exited.                              *)
(***************************************************************************)
StdoutEnded == pc_stdout \in {"done", "panicked"}

StdinEnded == pc_stdin \in {"done", "panicked"}

StderrEnded == pc_stderr = "done"

StopSignal ==
    /\ [](\A k \in 1..Len(stdinBytes) : stdinBytes[k] = "q")
    /\ [](pc_stdin = "recv" => Len(stdinBytes) + Len(rx) = stopsSent)
    /\ [](pc_stdin = "write" => Len(stdinBytes) + Len(rx) + 1 = stopsSent)
    /\ [][pc_stdin = "write" /\ pc_stdin' # pc_stdin =>
            IF child = "running"
            THEN stdinBytes' = Append(stdinBytes, "q") /\ pc_stdin' = "recv"
            ELSE stdinBytes' = stdinBytes /\ pc_stdin' = "panicked"]_vars
    /\ [][stdinBytes' # stdinBytes => pc_stdin = "write" /\ child = "running"]_vars
    /\ [][pc_stdin = "panicked" =>
            pc_stdin' = "panicked" /\ stdinBytes' = stdinBytes /\ rx' = rx]_vars
    /\ [][pc_stdin # "panicked" /\ pc_stdin' = "panicked" =>
            pc_stdout' = pc_stdout /\ pc_stderr' = pc_stderr]_vars

\* one Stop was written as 'q', ffmpeg exited, and a second Stop failed
StopSignalWitness ==
    /\ pc_stdin = "panicked"
    /\ stdinBytes = <<"q">>
    /\ stopsSent >= 2
    /\ child = "exited"

(***************************************************************************)
(* The threads do not depend on one another.                               *)
(***************************************************************************)
\* what each thread waits for: its own pipe or channel, nothing else
StdoutReady ==
    \/ pc_stdout \in {"init", "dispatch"}
    \/ /\ pc_stdout = "read"
       /\ \/ num_triggers = 0
          \/ child = "exited"
          \/ stdoutWritten - stdoutRead >= SizeOf(cur_frame % num_triggers)

StdinReady ==
    \/ pc_stdin = "write"
    \/ pc_stdin = "recv" /\ (rx # <<>> \/ ~senderAlive)

StderrReady == pc_stderr = "lines" /\ (stderrPipe # <<>> \/ child = "exited")

\* C8 (failure containment between pumps): the step that ends one thread
\* (a failed write, a failed read or dispatch, the end of stderr) changes
\* nothing of the other two threads, and each thread that has not ended can
\* take its next step whenever its own pipe or channel allows it, whatever
\* became of the others.
FailureContainment ==
    /\ [][~StdinEnded /\ StdinEnded' => UNCHANGED <<stdoutVars, stderrVars>>]_vars
    /\ [][~StdoutEnded /\ StdoutEnded' => UNCHANGED <<stdinVars, stderrVars>>]_vars
    /\ [][~StderrEnded /\ StderrEnded' => UNCHANGED <<stdinVars, stdoutVars>>]_vars
    /\ [](StdoutReady => ENABLED StdoutThread)
    /\ [](StdinReady => ENABLED StdinThread)
    /\ [](StderrReady => ENABLED StderrThread)

\* the stdin thread has panicked while the stdout thread holds a frame to
\* dispatch and the stderr thread has a line to pass on
FailureContainmentWitness ==
    /\ pc_stdin = "panicked"
    /\ pc_stdout = "dispatch"
    /\ pc_stderr = "lines"
    /\ stderrPipe # <<>>

\* the stdout thread has panicked on a failed dispatch while the stdin
\* thread can still write a Stop to the running ffmpeg
DispatchFailureContainedWitness ==
    /\ pc_stdout = "panicked"
    /\ calls # <<>>
    /\ pc_stdin = "write"
    /\ child = "running"

(***************************************************************************)
(* Specification of spawn_ffmpeg_childprocess alone, over crop rectangles. *)
(***************************************************************************)
\* xPercent and yPercent of the triggers tried
XYPercents == {0, 50}

\* widthPercent and heightPercent of the triggers tried
WHPercents == {0, 50, 150}

GraphTriggers ==
    {[crop |-> Crop(x, y, w, h, 1, 1), runner_type |-> "tesseract",
      debug |-> FALSE] :
        x \in XYPercents, y \in XYPercents, w \in WHPercents, h \in WHPercents}

InitGraph ==
    /\ config \in {Config(t) : t \in SeqsUpTo(GraphTriggers, MaxTriggers)}
    /\ videoBytes = 0
    /\ stderrText = <<>>
    /\ child = "none"
    /\ args = <<>>
    /\ InitThreads

NextGraph == SpawnOk \/ SpawnErr

SpecGraph == InitGraph /\ [][NextGraph]_vars

\* the pieces of the filter graph that are crop stages, in order
CropsOf(graph) == LET IsCrop(t) == t.tag = "crop" IN SelectSeq(graph, IsCrop)

\* the [in..] labels of the split, in order
InsOf(graph) == LET IsIn(t) == t.tag = "in" IN SelectSeq(graph, IsIn)

\* the arguments that are [out..] labels, in order
OutsOf(a) == LET IsOut(t) == t.tag = "out" IN SelectSeq(a, IsOut)

\* the positions of the -map arguments
MapsOf(a) == {k \in 1..Len(a) : a[k].tag = "arg" /\ a[k].text = "-map"}

\* C9 (filter-graph port order): for a non-empty trigger list, the command
\* built declares split=N with ports [in0]..[in{N-1}]; the i-th crop stage
\* reads [in{i}], carries trigger i's width, height, x and y percentages over
\* 100 and writes [out{i}]; and there are N -map arguments, the i-th followed
\* by [out{i}].
FilterGraphPortOrder ==
    (child # "none" /\ num_triggers >= 1)
    => LET graph == args[6].graph
           crops == CropsOf(graph)
           ins   == InsOf(graph)
           outs  == OutsOf(args)
       IN /\ args[5] = Arg("-filter_complex")
          /\ graph[1].tag = "fps_split"
          /\ graph[1].split = num_triggers
          /\ Len(ins) = num_triggers
          /\ Len(crops) = num_triggers
          /\ Len(outs) = num_triggers
          /\ Cardinality(MapsOf(args)) = num_triggers
          /\ \A k \in MapsOf(args) : args[k + 1].tag = "out"
          /\ \A i \in 0..(num_triggers - 1) :
                /\ ins[i + 1].idx = i
                /\ crops[i + 1].in = i
                /\ crops[i + 1].out = i
                /\ crops[i + 1].in_w = [num |-> Trigger(i).crop.widthPercent, den |-> 100]
                /\ crops[i + 1].in_h = [num |-> Trigger(i).crop.heightPercent, den |-> 100]
                /\ crops[i + 1].x = [num |-> Trigger(i).crop.xPercent, den |-> 100]
                /\ crops[i + 1].y = [num |-> Trigger(i).crop.yPercent, den |-> 100]
                /\ outs[i + 1].idx = i

\* ffmpeg was started for two triggers whose four percentages all differ
FilterGraphWitness ==
    /\ child = "running"
    /\ num_triggers = 2
    /\ Trigger(0).crop.widthPercent # Trigger(1).crop.widthPercent
    /\ Trigger(0).crop.heightPercent # Trigger(1).crop.heightPercent
    /\ Trigger(0).crop.xPercent # Trigger(1).crop.xPercent
    /\ Trigger(0).crop.yPercent # Trigger(1).crop.yPercent
    /\ Trigger(0).crop.widthPercent # Trigger(0).crop.heightPercent

\* a crop rectangle no frame can hold: no width or height, or a side or an
\* origin outside [0,100] percent
Degenerate(crop) ==
    \/ crop.widthPercent <= 0
    \/ crop.heightPercent <= 0
    \/ crop.xPercent < 0
    \/ crop.yPercent < 0
    \/ crop.widthPercent > 100
    \/ crop.heightPercent > 100
    \/ crop.xPercent > 100
    \/ crop.yPercent > 100

\* C10 (invalid crop rectangle is rejected before spawn), as claimed: with a
\* degenerate crop rectangle among the triggers the call fails before the
\* spawn: ffmpeg is never started.
InvalidCropRejected ==
    (\E i \in 0..(num_triggers - 1) : Degenerate(Trigger(i).crop))
    => child # "running"


(***************************************************************************)
(* The life of the stdin thread.                                           *)
(***************************************************************************)
\* C11 (stdin pump lifecycle): the stdin thread returns only from a receive
\* on a channel that is empty and closed, never while the caller holds the
\* sender; when it has returned, every Stop sent was received and written
\* as one 'q'; and once the caller has dropped the sender the thread ends,
\* by returning or, if a write failed, by that failure.
StdinLifecycle ==
    /\ [][pc_stdin # "done" /\ pc_stdin' = "done" =>
            pc_stdin = "recv" /\ rx = <<>> /\ ~senderAlive]_vars
    /\ [](senderAlive => pc_stdin # "done")
    /\ [](pc_stdin = "done" =>
            /\ rx = <<>>
            /\ Len(stdinBytes) = stopsSent
            /\ \A k \in 1..Len(stdinBytes) : stdinBytes[k] = "q")
    /\ (~senderAlive) ~> StdinEnded

\* the caller sent two Stops and dropped the sender; both were written and
\* the thread returned
StdinLifecycleWitness ==
    /\ pc_stdin = "done"
    /\ stopsSent = 2
    /\ stdinBytes = <<"q", "q">>
    /\ ~senderAlive


(***************************************************************************)
(* Routing of the dispatched frames.                                       *)
(***************************************************************************)
\* the commands of worker r that carry the image handed over in call f
CommandsFor(r, f) ==
    {k \in 1..Len(runnerQueue[r]) : runnerQueue[r][k].image = calls[f].image}

\* all commands on all worker queues
RECURSIVE TotalQueued(_)
TotalQueued(S) ==
    IF S = {} THEN 0
    ELSE LET r == CHOOSE x \in S : TRUE
         IN Len(runnerQueue[r]) + TotalQueued(S \ {r})

\* C12 (dispatcher routing): for every frame handed to on_ffmpeg_stdout whose
\* send returned, exactly one ProcessImage command with that image is on a
\* worker queue, namely on the queue of the runner type of the frame's
\* trigger, and it carries the input path, that image and that trigger; a
\* frame whose send failed is on no queue; the queues hold nothing else.
DispatcherRouting ==
    num_triggers >= 1 =>
       /\ \A f \in 1..Len(calls) :
             LET i       == (f - 1) % num_triggers
                 tx_name == Trigger(i).runner_type
             IN IF f <= cur_frame
                THEN /\ Cardinality(CommandsFor(tx_name, f)) = 1
                     /\ \A k \in CommandsFor(tx_name, f) :
                           runnerQueue[tx_name][k] =
                              [input_id |-> config.inputPath,
                               image    |-> calls[f].image,
                               trigger  |-> i]
                     /\ \A r \in RunnerTypes \ {tx_name} : CommandsFor(r, f) = {}
                ELSE \A r \in RunnerTypes : CommandsFor(r, f) = {}
       /\ TotalQueued(RunnerTypes) = cur_frame

\* two triggers of different runner types, each worker has received frames
DispatcherRoutingWitness ==
    /\ num_triggers = 2
    /\ Trigger(0).runner_type # Trigger(1).runner_type
    /\ cur_frame >= 3
    /\ \A r \in RunnerTypes : runnerQueue[r] # <<>>


(***************************************************************************)
(* Order of reading and dispatching.                                       *)
(***************************************************************************)
\* the commands for trigger i on the queue of its worker, in queue order
QueuedFor(i) ==
    SelectSeq(runnerQueue[Trigger(i).runner_type], LAMBDA c : c.trigger = i)

\* chunks read from the stream so far: one clone on the heap per chunk
FramesRead == Len(heap) - Len(buffers)

\* C17 (synchronous, sequential dispatch): the stdout thread reads from the
\* stream only while no frame is waiting for its dispatch, so the frames read
\* exceed the frames handed to on_ffmpeg_stdout by one exactly during a
\* dispatch and by none otherwise; and the j-th command on a trigger's worker
\* queue carries the j-th chunk of that trigger in the stream.
SequentialDispatch ==
    /\ [][stdoutRead' # stdoutRead =>
            pc_stdout = "read" /\ raw_image_data = 0]_vars
    /\ [](FramesRead - Len(calls) = IF pc_stdout = "dispatch" THEN 1 ELSE 0)
    /\ [](pc_stdout # "dispatch" => raw_image_data = 0)
    /\ [](\A i \in 0..(num_triggers - 1) :
             \A j \in 1..Len(QueuedFor(i)) :
                heap[QueuedFor(i)[j].image] =
                   FrameBytes(i + (j - 1) * num_triggers))

\* two triggers on one worker, the second frame of the second trigger is
\* read and waits for its dispatch behind three dispatched ones
SequentialDispatchWitness ==
    /\ num_triggers = 2
    /\ Trigger(0).runner_type = Trigger(1).runner_type
    /\ pc_stdout = "dispatch"
    /\ Len(QueuedFor(0)) = 2
    /\ Len(QueuedFor(1)) = 1


(***************************************************************************)
(* Counts of dispatched frames.                                            *)
(***************************************************************************)
\* C19 (balanced per-trigger counts): with N >= 1 triggers the commands on
\* the worker queues are cur_frame in number, an earlier trigger has as many
\* commands as a later one or one more, and cur_frame never decreases and
\* grows by one exactly when a command is enqueued.
BalancedCounts ==
    /\ [](num_triggers >= 1 =>
            /\ TotalQueued(RunnerTypes) = cur_frame
            /\ \A i, j \in 0..(num_triggers - 1) :
                  i < j => Len(QueuedFor(i)) - Len(QueuedFor(j)) \in {0, 1})
    /\ [][num_triggers >= 1 =>
            \/ /\ cur_frame' = cur_frame
               /\ runnerQueue' = runnerQueue
            \/ /\ cur_frame' = cur_frame + 1
               /\ pc_stdout = "dispatch"
               /\ calls' # calls]_vars

\* three frames dispatched to two triggers: two for the first, one for the second
BalancedCountsWitness ==
    /\ num_triggers = 2
    /\ cur_frame = 3
    /\ Len(QueuedFor(0)) = 2
    /\ Len(QueuedFor(1)) = 1
    /\ pc_stdout = "read"


(***************************************************************************)
(* The stderr thread on a longer stderr stream.                            *)
(***************************************************************************)
InitStderr ==
    /\ config \in {Config(t) : t \in SeqsUpTo(PumpTriggers, 1)}
    /\ videoBytes = 0
    /\ stderrText \in StderrTexts(MaxStderrLines)
    /\ child = "running"
    /\ args = CommandArgs(config)
    /\ InitThreads

NextStderr == FfmpegWriteStderr \/ FfmpegExit \/ StderrThread

SpecStderr == InitStderr /\ [][NextStderr]_vars /\ WF_vars(StderrThread)

\* C13 (stderr pump): the calls of on_ffmpeg_stderr are, in order, the lines
\* of the stderr stream, each as Ok(line) or as the Err of its decoding, one
\* call per line and no other call; after the end of the stream the thread
\* ends, having passed on all L lines ffmpeg wrote, and calls no more.
StderrPump ==
    /\ [](sink = [k \in 1..Len(sink) |-> LineItem(stderrText[k])])
    /\ [](Len(sink) + Len(stderrPipe) = stderrWritten)
    /\ [](pc_stderr = "done" =>
            child = "exited" /\ stderrPipe = <<>> /\ Len(sink) = stderrWritten)
    /\ [][sink' # sink =>
            /\ stderrPipe # <<>>
            /\ sink' = Append(sink, LineItem(Head(stderrPipe)))
            /\ stderrPipe' = Tail(stderrPipe)]_vars
    /\ [][pc_stderr = "done" => pc_stderr' = "done" /\ sink' = sink]_vars
    /\ (child = "exited") ~> (pc_stderr = "done")

\* three lines, the second not UTF-8, all passed on in order before the
\* thread ended
StderrPumpWitness ==
    /\ pc_stderr = "done"
    /\ stderrWritten = 3
    /\ sink = <<[tag |-> "Ok", string |-> 1],
                [tag |-> "Err", string |-> ""],
                [tag |-> "Ok", string |-> 3]>>


(***************************************************************************)
(* The stdout and stdin threads beside a stderr thread that makes no       *)
(* progress: on_ffmpeg_stderr is slow or blocked.                          *)
(***************************************************************************)
\* the stdout and stdin threads are scheduled; the stderr thread may stay
\* in its callback for ever
SpecStall ==
    /\ InitPumps
    /\ [][NextPumps]_vars
    /\ WF_vars(StdoutThread)
    /\ WF_vars(StdinThread)

\* C14 (pump independence): whatever the stderr thread does or fails to do,
\* the stdout thread ends once ffmpeg has exited, having dispatched every
\* whole frame of the stream unless a dispatch failed, and every Stop the
\* caller sent is written to ffmpeg's stdin unless that write fails.
PumpIndependence ==
    /\ (child = "exited") ~> StdoutEnded
    /\ [](pc_stdout = "done" =>
            /\ Offset(Len(calls)) <= stdoutWritten
            /\ stdoutWritten < Offset(Len(calls) + 1)
            /\ cur_frame = Len(calls))
    /\ (Len(stdinBytes) < stopsSent) ~>
          (Len(stdinBytes) = stopsSent \/ pc_stdin = "panicked")

\* a line waits in the stderr pipe and on_ffmpeg_stderr has never returned;
\* the stdout thread has dispatched the stream's frame and ended, and the
\* stdin thread has written a 'q'
PumpIndependenceWitness ==
    /\ pc_stderr = "lines"
    /\ stderrPipe # <<>>
    /\ sink = <<>>
    /\ pc_stdout = "done"
    /\ Len(calls) = 1
    /\ stdoutWritten >= 3
    /\ stdinBytes # <<>>


(***************************************************************************)
(* The threads on pipes that can fail, with any logging flags.             *)
(***************************************************************************)
\* one-pixel triggers in or out of debug mode
IoTriggers ==
    {[crop |-> Crop(25, 25, 50, 50, 1, 1), runner_type |-> "tesseract",
      debug |-> d] : d \in BOOLEAN}

InitIo ==
    /\ config \in {[Config(t) EXCEPT !.logging = Logging(e, a)] :
                      t \in SeqsUpTo(IoTriggers, MaxTriggers),
                      e \in BOOLEAN, a \in BOOLEAN}
    /\ videoBytes = MaxPumpStream
    /\ stderrText = PumpStderrText
    /\ child = "running"
    /\ args = CommandArgs(config)
    /\ InitThreads

NextIo ==
    \/ FfmpegWriteStdout
    \/ FfmpegWriteStderr
    \/ FfmpegExit
    \/ StdoutThread
    \/ StdoutReadIoError
    \/ StderrThread

SpecIo == InitIo /\ [][NextIo]_vars

\* the texts the stdout thread prints in a run that ends at the end of the stream
EofTexts == {"[rust] Allocated buffer", "[ffmpeg] done; thread exiting"}

\* C16 (stream error versus end-of-stream), as claimed: when the loop of the
\* stdout thread has ended on a read error that is not the end of the
\* stream, the thread has printed a line that a run ending at the end of the
\* stream does not print.
StreamErrorReported ==
    (pc_stdout = "done" /\ stdoutErr = "Other") =>
       \E k \in 1..Len(stdoutLog) : stdoutLog[k].text \notin EofTexts


(***************************************************************************)
(* The end of the stdout thread at the end of the stream.                  *)
(***************************************************************************)
\* the stdout thread alone, scheduled whenever it can run, with up to
\* MaxTriggers one-pixel triggers on a stream of several frames
InitDemux ==
    /\ config \in {Config(t) : t \in SeqsUpTo(PumpTriggers, MaxTriggers)}
    /\ videoBytes = MaxStream
    /\ stderrText = <<>>
    /\ child = "running"
    /\ args = CommandArgs(config)
    /\ InitThreads

SpecDemux == InitDemux /\ [][Next]_vars /\ WF_vars(StdoutThread)

\* the stream has ended short of the frame the stdout thread is to read next
AtEndOfStream ==
    /\ child = "exited"
    /\ pc_stdout = "read"
    /\ num_triggers >= 1
    /\ stdoutWritten - stdoutRead < SizeOf(cur_frame % num_triggers)

\* C15 (demuxer termination at end-of-stream): with N >= 1 triggers, once
\* ffmpeg has exited the stdout thread ends; it ends by returning from its
\* closure unless a dispatch failed, and it returns only at the end of the
\* stream with less than a frame left unread; from the end of the stream on
\* it dispatches no frame, and having returned it does nothing more.
DemuxerTerminates ==
    /\ (child = "exited" /\ num_triggers >= 1) ~> StdoutEnded
    /\ [](num_triggers >= 1 /\ pc_stdout = "panicked" =>
            /\ Len(calls) = cur_frame + 1
            /\ ~runnerOpen[Trigger(cur_frame % num_triggers).runner_type])
    /\ [](pc_stdout = "done" =>
            /\ child = "exited"
            /\ stdoutErr = "UnexpectedEof"
            /\ stdoutWritten - stdoutRead = 0)
    /\ [][AtEndOfStream =>
            /\ calls' = calls
            /\ runnerQueue' = runnerQueue
            /\ pc_stdout' \in {"read", "done"}]_vars
    /\ [][pc_stdout = "done" => UNCHANGED stdoutVars]_vars

\* two triggers, ffmpeg exited after three frames and one byte: the stdout
\* thread dispatched the three frames and returned
DemuxerTerminatesWitness ==
    /\ num_triggers = 2
    /\ child = "exited"
    /\ stdoutWritten = 10
    /\ pc_stdout = "done"
    /\ Len(calls) = 3
    /\ Len(runnerQueue["tesseract"]) = 3


(***************************************************************************)
(* Buffer sizes at the edge of u32.                                        *)
(***************************************************************************)
\* pixel sizes tried: one pixel; width * height = 2^32 + 1;
\* width * height * 3 = 2^32 + 2 with width * height below 2^32
EdgeSizes == {<<1, 1>>, <<641, 6700417>>, <<2, 715827883>>}

SizeTriggers ==
    {[crop |-> Crop(25, 25, 50, 50, wh[1], wh[2]), runner_type |-> "tesseract",
      debug |-> FALSE] : wh \in EdgeSizes}

InitSize ==
    /\ config \in {Config(t) : t \in SeqsUpTo(SizeTriggers, MaxTriggers)}
    /\ videoBytes = MaxStream
    /\ stderrText = <<>>
    /\ child = "running"
    /\ args = CommandArgs(config)
    /\ InitThreads

NextSize == Next \/ AllocOverflowPanic

SpecSize == InitSize /\ [][NextSize]_vars

\* len = width * height * 3 in the integers, tested by division
IsFrameSize(len, width, height) ==
    /\ len % 3 = 0
    /\ (len \div 3) % width = 0
    /\ (len \div 3) \div width = height

\* C18 (frame size), as claimed: every frame handed to on_ffmpeg_stdout for
\* trigger i is width_i * height_i * 3 bytes long, for all widths and heights
\* of type u32.
FrameSize ==
    \A f \in 1..Len(calls) :
       LET crop == Trigger(calls[f].trigger).crop
       IN IsFrameSize(Len(heap[calls[f].image]), crop.width, crop.height)

====
